---------------------------- MODULE Spec2Model ----------------------------
(***************************************************************************)
(* Model of the two programs of visual_sequence_tester.py:                 *)
(*                                                                         *)
(*  - the Python generator (RobotDistinctivenessAnalyzer and main), which  *)
(*    reads best_sequences_quick_ref.json, enumerates the robot            *)
(*    combinations and writes three files;                                 *)
(*  - the JavaScript harness it emits (class OptimalSequenceTester), which *)
(*    drives an external game page through its global functions and        *)
(*    collects one result record per robot combination.                    *)
(*                                                                         *)
(* The generator's variables are prefixed by nothing, the harness's are    *)
(* listed under hvars.  GenSpec runs the generator, Spec the harness.      *)
(***************************************************************************)
EXTENDS Integers, Sequences, FiniteSets, TLC

VARIABLES
    \* ---- generator (Python process) ----
    runs,               \* what earlier runs of the process left behind
    entry,              \* how the process was started: "main" | "analyzer"
    inputFile,          \* best_sequences_quick_ref.json on disk
    outFiles,           \* the three output files on disk
    writeLog,           \* names of the files opened for writing, in order
    pc,                 \* position of the Python process
    exitCode,           \* process exit status, NoExit while running
    sequences,          \* self.sequences
    di, si, pi,         \* loop positions of _generate_robot_combinations
    combinations,       \* its local list
    robot_combinations, \* self.robot_combinations
    \* ---- harness (JavaScript, in the game page) ----
    present,            \* global game functions that exist in the page
    selects,            \* ids of the <select> elements that exist
    selectValue,        \* value of each <select>
    updateUI,           \* what window.updateUI currently is
    hpc,                \* where the async startTest is suspended
    gameLength,         \* argument of the running startTest
    optimalSequence,    \* the sequence record of the run
    ci,                 \* loop variable i of startTest (1-based)
    mi,                 \* loop variable i of testSequenceAgainstCombo (1-based)
    wins,               \* local wins of testSequenceAgainstCombo
    results,            \* this.results
    events,             \* calls made to the page for the current combination
    trace,              \* steps of the current run of startTest, in order
    reports,            \* outputs of displayFinalResults
    downloads,          \* resultsData of createDownloadableResults
    errors              \* number of console.error calls

gvars == <<runs, entry, inputFile, outFiles, writeLog, pc, exitCode, sequences,
           di, si, pi, combinations, robot_combinations>>
hvars == <<present, selects, selectValue, updateUI, hpc, gameLength,
           optimalSequence, ci, mi, wins, results, events, trace, reports,
           downloads, errors>>
vars == <<gvars, hvars>>

-----------------------------------------------------------------------------
(* Option sets of _generate_robot_combinations.                            *)

difficulties == <<"random", "frequency", "markov", "enhanced", "lstm">>
strategies == <<"balanced", "to_win", "not_to_lose">>
personalities == <<"neutral", "berserker", "guardian", "chameleon",
                   "professor", "wildcard", "mirror">>

\* str.title() and str.replace('_', ' ') on the option strings, as a table.
Title(s) ==
    CASE s = "random" -> "Random"
      [] s = "frequency" -> "Frequency"
      [] s = "markov" -> "Markov"
      [] s = "enhanced" -> "Enhanced"
      [] s = "lstm" -> "Lstm"
      [] s = "balanced" -> "Balanced"
      [] s = "to_win" -> "To Win"
      [] s = "not_to_lose" -> "Not To Lose"
      [] s = "neutral" -> "Neutral"
      [] s = "berserker" -> "Berserker"
      [] s = "guardian" -> "Guardian"
      [] s = "chameleon" -> "Chameleon"
      [] s = "professor" -> "Professor"
      [] s = "wildcard" -> "Wildcard"
      [] s = "mirror" -> "Mirror"
      [] s = "paper" -> "Paper"
      [] s = "stone" -> "Stone"
      [] s = "scissor" -> "Scissor"
      [] s = "demo" -> "Demo"
      [] s = "long demo" -> "Long Demo"
      [] s = "say " -> "Say "
      [] s = "hi" -> "Hi"
      [] s = "a" -> "A"
      [] s = "b" -> "B"
      [] OTHER -> s

\* The dict appended by one pass of the innermost loop; name is the f-string
\* "{difficulty.title()} + {strategy.replace('_', ' ').title()} + ...".
Combination(difficulty, strategy, personality) ==
    [difficulty |-> difficulty, strategy |-> strategy,
     personality |-> personality,
     name |-> <<Title(difficulty), " + ", Title(strategy), " + ",
                Title(personality)>>]

-----------------------------------------------------------------------------
(* Text.  A str is a sequence of pieces: a piece is one of the characters  *)
(* named here or a run of characters none of which is one of them (and     *)
(* whose first character is no escape letter of JavaScript).               *)

Quote == "\""
Backslash == "\\"
Backtick == "<backtick>"
Dollar == "$"
LBrace == "{"
RBrace == "}"

\* json.dumps of one character of a str: the double quote and the backslash
\* get a backslash in front, every other piece used here is copied.
EscapeChar(c) == IF c \in {Quote, Backslash} THEN <<Backslash, c>> ELSE <<c>>

RECURSIVE EscapeText(_)
EscapeText(s) ==
    IF s = <<>> THEN <<>> ELSE EscapeChar(Head(s)) \o EscapeText(Tail(s))

\* json.dumps(s) for a str s: the string literal, quotes included.
DumpsStr(s) == <<Quote>> \o EscapeText(s) \o <<Quote>>

\* json.dumps of a float held in hundredths: repr() prints the shortest
\* decimal, at least one digit after the point (42.5, 38.75, 42.0).
DumpsFloat(h) ==
    [int |-> h \div 100,
     frac |-> IF h % 10 = 0 THEN <<(h % 100) \div 10>>
              ELSE <<(h % 100) \div 10, h % 10>>]

\* json.dumps of an int: its digits, no point.
DumpsInt(n) == [int |-> n, frac |-> <<>>]

\* str.replace('`', '\\`') of create_html_test_page: every back-tick gets a
\* backslash in front; nothing else is touched.
RECURSIVE ReplaceBackticks(_)
ReplaceBackticks(s) ==
    IF s = <<>> THEN <<>>
    ELSE (IF Head(s) = Backtick THEN <<Backslash, Backtick>> ELSE <<Head(s)>>)
            \o ReplaceBackticks(Tail(s))

-----------------------------------------------------------------------------
(* Files.                                                                  *)

JsFile == "optimal_sequence_test.js"
HtmlFile == "optimal_sequence_test.html"
MdFile == "manual_testing_instructions.md"
OutputNames == {JsFile, HtmlFile, MdFile}

\* exitCode while the process is still running (no exit status yet).
NoExit == 0 - 1

\* A file is the list of the blocks written to it since it was last
\* truncated; open(name, 'w') truncates.
NoFile == [exists |-> FALSE, text |-> <<>>]
OldFile == [exists |-> TRUE, text |-> <<[kind |-> "old"]>>]

\* Sample "25_moves" / "50_moves" records of the input document.  avg_win_rate
\* is held in hundredths of a percent point (4250 is 42.5); the samples are
\* multiples of a quarter, which a float holds exactly.
Rec25 == [sequence |-> <<"paper", "stone">>, name |-> <<"demo">>,
          avg_win_rate |-> 4250, beats_count |-> 60]
Rec50 == [sequence |-> <<"scissor">>,
          name |-> <<"long demo">>, avg_win_rate |-> 3875, beats_count |-> 41]
Rec25NoRate == [sequence |-> <<"paper", "stone">>, name |-> <<"demo">>,
                beats_count |-> 60]
\* Records whose names hold a double quote, a backslash and a back-tick.
Rec25Quoted == [sequence |-> <<"paper", "stone", "scissor">>,
                name |-> <<"say ", Quote, "hi", Quote>>,
                avg_win_rate |-> 4250, beats_count |-> 60]
Rec50Ticked == [sequence |-> <<"stone", "stone">>,
                name |-> <<"a", Backslash, Backtick, "b">>,
                avg_win_rate |-> 4225, beats_count |-> 7]

DocWellFormed == [k \in {"25_moves", "50_moves"} |->
                    IF k = "25_moves" THEN Rec25 ELSE Rec50]
DocQuoted == [k \in {"25_moves", "50_moves"} |->
                    IF k = "25_moves" THEN Rec25Quoted ELSE Rec50Ticked]
DocNo50 == [k \in {"25_moves"} |-> Rec25]
DocNo25 == [k \in {"50_moves"} |-> Rec50]
DocNoField == [k \in {"25_moves", "50_moves"} |->
                    IF k = "25_moves" THEN Rec25NoRate ELSE Rec50]
DocEmpty == [k \in {} |-> Rec25]

\* What may be on disk as best_sequences_quick_ref.json: nothing, text that
\* is not JSON, or a JSON document.
InputFiles ==
    {[exists |-> FALSE, json |-> FALSE, doc |-> DocEmpty],
     [exists |-> TRUE, json |-> FALSE, doc |-> DocEmpty]}
    \cup {[exists |-> TRUE, json |-> TRUE, doc |-> d] :
            d \in {DocWellFormed, DocQuoted, DocNo50, DocNo25, DocNoField,
                   DocEmpty}}

RecordFields == {"sequence", "name", "avg_win_rate", "beats_count"}

\* The subscripts create_html_test_page and the Markdown f-string evaluate:
\* a missing key raises KeyError.
Renderable(doc) ==
    /\ {"25_moves", "50_moves"} \subseteq DOMAIN doc
    /\ \A k \in {"25_moves", "50_moves"} : RecordFields \subseteq DOMAIN doc[k]

WellFormed(f) == f.exists /\ f.json /\ Renderable(f.doc)

-----------------------------------------------------------------------------
(* The generator.                                                          *)

\* json.dumps of one record of self.sequences: each value is rendered by its
\* type, which in these documents goes with the field.
DumpsRecord(rec) ==
    [f \in DOMAIN rec |->
        CASE f = "sequence" ->
                [i \in DOMAIN rec[f] |-> DumpsStr(<<rec[f][i]>>)]
          [] f = "name" -> DumpsStr(rec[f])
          [] f = "avg_win_rate" -> DumpsFloat(rec[f])
          [] f = "beats_count" -> DumpsInt(rec[f])]

\* json.dumps(self.sequences, indent=8)
DumpsSequences(doc) == [k \in DOMAIN doc |-> DumpsRecord(doc[k])]

\* json.dumps of the list without its last element.
DumpsCombinations_short(combos) ==
    [i \in 1..(Len(combos) - 1) |->
        [difficulty |-> DumpsStr(<<combos[i].difficulty>>),
         strategy |-> DumpsStr(<<combos[i].strategy>>),
         personality |-> DumpsStr(<<combos[i].personality>>),
         name |-> DumpsStr(combos[i].name)]]

\* json.dumps(self.robot_combinations, indent=8)
DumpsCombinations(combos) ==
    [i \in DOMAIN combos |->
        [difficulty |-> DumpsStr(<<combos[i].difficulty>>),
         strategy |-> DumpsStr(<<combos[i].strategy>>),
         personality |-> DumpsStr(<<combos[i].personality>>),
         name |-> DumpsStr(combos[i].name)]]

\* The text of the class after the two embedded literals: its first
\* statement with a template literal, the console.log that opens startTest.
\* The later template literals have the same form.
HarnessCode ==
    <<"console.log(", Backtick, "Starting automated test with ",
      Dollar, LBrace, "gameLength", RBrace, "-move sequences", Backtick, ");">>

\* The string generate_javascript_test_function returns.
generate_javascript_test_function(doc, combos) ==
    [sequences |-> DumpsSequences(doc),
     robotCombinations |-> DumpsCombinations(combos),
     code |-> HarnessCode]

JsContent(doc, combos) ==
    [kind |-> "js", script |-> generate_javascript_test_function(doc, combos)]

\* The script text after .replace on the whole string.
EscapedRecord(rec) ==
    [f \in DOMAIN rec |->
        CASE f = "sequence" ->
                [i \in DOMAIN rec[f] |-> ReplaceBackticks(rec[f][i])]
          [] f = "name" -> ReplaceBackticks(rec[f])
          [] OTHER -> rec[f]]

EscapedScript(js) ==
    [sequences |-> [k \in DOMAIN js.sequences |->
                        EscapedRecord(js.sequences[k])],
     robotCombinations |->
        [i \in DOMAIN js.robotCombinations |->
            [f \in DOMAIN js.robotCombinations[i] |->
                ReplaceBackticks(js.robotCombinations[i][f])]],
     code |-> ReplaceBackticks(js.code)]

\* The format spec :.1f on a float held in hundredths: one digit after the
\* point, an exact tie going to the even digit.
Format1f(h) ==
    LET t == h \div 10
        r == h % 10
        q == IF r > 5 \/ (r = 5 /\ t % 2 = 1) THEN t + 1 ELSE t
    IN  [int |-> q \div 10, frac |-> <<q % 10>>]

\* str.title() on a str, piece by piece.
TitleText(s) == [i \in DOMAIN s |-> Title(s[i])]

\* One "sequence-box" of the page: the three stat cards and the move list.
SequenceBox(rec) ==
    [rate |-> Format1f(rec.avg_win_rate),
     beats |-> DumpsInt(rec.beats_count),
     name |-> TitleText(rec.name),
     moves |-> [i \in DOMAIN rec.sequence |->
                    [class |-> rec.sequence[i],
                     label |-> Title(rec.sequence[i])]]]

\* The string create_html_test_page returns: the two boxes and, in the
\* <script>, the harness text between back-ticks.
HtmlContent(doc, combos) ==
    [kind |-> "html",
     boxes |-> [k \in {"25_moves", "50_moves"} |-> SequenceBox(doc[k])],
     template |->
        EscapedScript(generate_javascript_test_function(doc, combos))]

\* ' → '.join(moves)
Arrow == " <arrow> "

\* The moves joined last to first.
RECURSIVE Join_reversed(_, _)
Join_reversed(sep, moves) ==
    IF moves = <<>> THEN <<>>
    ELSE IF Len(moves) = 1 THEN moves
    ELSE Join_reversed(sep, Tail(moves)) \o <<sep, Head(moves)>>

RECURSIVE Join(_, _)
Join(sep, moves) ==
    IF moves = <<>> THEN <<>>
    ELSE IF Len(moves) = 1 THEN moves
    ELSE <<Head(moves), sep>> \o Join(sep, Tail(moves))

\* The lines of manual_instructions that depend on a record.
ManualSection(rec) ==
    [heading |-> TitleText(rec.name),
     rate |-> [label |-> "**Expected Win Rate: ",
               value |-> Format1f(rec.avg_win_rate),
               end |-> "%**"],
     sequence |-> <<"Sequence: ">> \o Join(Arrow, rec.sequence)]

MdContent(doc) ==
    [kind |-> "md",
     sections |-> [k \in {"25_moves", "50_moves"} |-> ManualSection(doc[k])]]

\* The generated script has not been pasted into any page.
HarnessIdle ==
    /\ present = {} /\ selects = {} /\ selectValue = <<>>
    /\ updateUI = "original" /\ hpc = "unloaded"
    /\ gameLength = 0 /\ optimalSequence = <<>> /\ ci = 0 /\ mi = 0
    /\ wins = <<>> /\ results = <<>> /\ events = <<>> /\ trace = <<>>
    /\ reports = <<>> /\ downloads = <<>> /\ errors = 0

GenInit ==
    /\ runs = <<>>
    /\ entry \in {"main", "analyzer"}
    /\ inputFile \in InputFiles
    /\ outFiles \in [OutputNames -> {NoFile, OldFile}]
    /\ writeLog = <<>>
    /\ pc = "start"
    /\ exitCode = NoExit
    /\ sequences = DocEmpty
    /\ di = 0 /\ si = 0 /\ pi = 0
    /\ combinations = <<>>
    /\ robot_combinations = <<>>
    /\ HarnessIdle

\* The interpreter ends the process: sys.exit(code), or an exception nobody
\* catches (status 1), or the end of the script (status 0).
Exit(code) ==
    /\ pc' = "exited"
    /\ exitCode' = code

\* main(): its first statement after the banner is VisualTester(), a name
\* the module never defines, so it raises NameError before any file is
\* touched.
main ==
    /\ pc = "start"
    /\ entry = "main"
    /\ Exit(1)
    /\ UNCHANGED <<runs, entry, inputFile, outFiles, writeLog, sequences, di, si, pi,
                   combinations, robot_combinations>>
    /\ UNCHANGED hvars

\* load_optimal_sequences as the except clause would be with a default in
\* place of sys.exit.
load_optimal_sequences_default ==
    /\ pc = "start"
    /\ entry = "analyzer"
    /\ sequences' = inputFile.doc
    /\ pc' = "enumerate"
    /\ di' = 1 /\ si' = 1 /\ pi' = 1
    /\ combinations' = <<>>
    /\ UNCHANGED <<runs, entry, inputFile, outFiles, writeLog, exitCode,
                   robot_combinations>>
    /\ UNCHANGED hvars

\* RobotDistinctivenessAnalyzer(): __init__ calls load_optimal_sequences.
\* FileNotFoundError is caught and ends in sys.exit(1); json.load's
\* JSONDecodeError is not caught.  On success __init__ goes on to
\* _generate_robot_combinations.
load_optimal_sequences ==
    /\ pc = "start"
    /\ entry = "analyzer"
    /\ IF ~inputFile.exists \/ ~inputFile.json
         THEN /\ Exit(1)
              /\ UNCHANGED <<sequences, di, si, pi, combinations>>
         ELSE /\ sequences' = inputFile.doc
              /\ pc' = "enumerate"
              /\ di' = 1 /\ si' = 1 /\ pi' = 1
              /\ combinations' = <<>>
              /\ UNCHANGED exitCode
    /\ UNCHANGED <<runs, entry, inputFile, outFiles, writeLog, robot_combinations>>
    /\ UNCHANGED hvars

\* The loop advance with the two inner loops exchanged.
NextIndex_swapped(d, s, p) ==
    IF s < Len(strategies) THEN <<d, s + 1, p>>
    ELSE IF p < Len(personalities) THEN <<d, 1, p + 1>>
    ELSE <<d + 1, 1, 1>>

\* The three nested for loops: personality innermost, difficulty outermost.
NextIndex(d, s, p) ==
    IF p < Len(personalities) THEN <<d, s, p + 1>>
    ELSE IF s < Len(strategies) THEN <<d, s + 1, 1>>
    ELSE <<d + 1, 1, 1>>

\* One pass of the innermost loop body: combinations.append({...}).
append_combination ==
    /\ pc = "enumerate"
    /\ di <= Len(difficulties)
    /\ combinations' = Append(combinations,
            Combination(difficulties[di], strategies[si], personalities[pi]))
    /\ LET n == NextIndex(di, si, pi)
       IN  di' = n[1] /\ si' = n[2] /\ pi' = n[3]
    /\ UNCHANGED <<runs, entry, inputFile, outFiles, writeLog, pc, exitCode,
                   sequences, robot_combinations>>
    /\ UNCHANGED hvars

\* return combinations; __init__ stores it and returns to the caller, which
\* calls generate_visual_test_files.
return_combinations ==
    /\ pc = "enumerate"
    /\ di > Len(difficulties)
    /\ robot_combinations' = combinations
    /\ pc' = "write_js"
    /\ UNCHANGED <<runs, entry, inputFile, outFiles, writeLog, exitCode, sequences,
                   di, si, pi, combinations>>
    /\ UNCHANGED hvars

\* open(name, 'a') in place of open(name, 'w').
WriteFile_append(name, content) ==
    /\ outFiles' = [outFiles EXCEPT
            ![name] = [exists |-> TRUE, text |-> Append(@.text, content)]]
    /\ writeLog' = Append(writeLog, name)

\* open(name, 'w') and f.write(content).
WriteFile(name, content) ==
    /\ outFiles' = [outFiles EXCEPT
            ![name] = [exists |-> TRUE, text |-> <<content>>]]
    /\ writeLog' = Append(writeLog, name)

\* generate_visual_test_files, first file: json.dumps renders any document.
write_js ==
    /\ pc = "write_js"
    /\ WriteFile(JsFile, JsContent(sequences, robot_combinations))
    /\ pc' = "write_html"
    /\ UNCHANGED <<runs, entry, inputFile, exitCode, sequences, di, si, pi,
                   combinations, robot_combinations>>
    /\ UNCHANGED hvars

\* Second file: create_html_test_page subscripts both records before the file
\* is opened; a missing key is an uncaught KeyError.
write_html ==
    /\ pc = "write_html"
    /\ IF Renderable(sequences)
         THEN /\ WriteFile(HtmlFile, HtmlContent(sequences, robot_combinations))
              /\ pc' = "write_md"
              /\ UNCHANGED exitCode
         ELSE /\ Exit(1)
              /\ UNCHANGED <<outFiles, writeLog>>
    /\ UNCHANGED <<runs, entry, inputFile, sequences, di, si, pi, combinations,
                   robot_combinations>>
    /\ UNCHANGED hvars

\* Third file, then the normal end.  The Markdown f-string subscripts only
\* keys create_html_test_page has already read, so it cannot raise here.
write_md ==
    /\ pc = "write_md"
    /\ WriteFile(MdFile, MdContent(sequences))
    /\ Exit(0)
    /\ UNCHANGED <<runs, entry, inputFile, sequences, di, si, pi, combinations,
                   robot_combinations>>
    /\ UNCHANGED hvars

\* Number of times the generator is run on the same input file.
MaxRuns == 2

\* The same command is given again after the process has ended; the input
\* file and the output files are as the last run left them.
run_again ==
    /\ pc = "exited"
    /\ Len(runs) + 1 < MaxRuns
    /\ runs' = Append(runs, [exitCode |-> exitCode, outFiles |-> outFiles,
                             writeLog |-> writeLog])
    /\ pc' = "start"
    /\ exitCode' = NoExit
    /\ writeLog' = <<>>
    /\ sequences' = DocEmpty
    /\ di' = 0 /\ si' = 0 /\ pi' = 0
    /\ combinations' = <<>>
    /\ robot_combinations' = <<>>
    /\ UNCHANGED <<entry, inputFile, outFiles>>
    /\ UNCHANGED hvars

GenNext ==
    \/ run_again
    \/ main
    \/ load_optimal_sequences
    \/ append_combination
    \/ return_combinations
    \/ write_js
    \/ write_html
    \/ write_md

GenSpec == GenInit /\ [][GenNext]_vars

-----------------------------------------------------------------------------
(* The harness: class OptimalSequenceTester of the generated script.       *)

\* _generate_robot_combinations run to its end, loop by loop: the list
\* json.dumps embeds in the script.
PersonalityLoop(d, s) ==
    [p \in 1..Len(personalities) |->
        Combination(difficulties[d], strategies[s], personalities[p])]

RECURSIVE StrategyLoop(_, _)
StrategyLoop(d, s) ==
    IF s > Len(strategies) THEN <<>>
    ELSE PersonalityLoop(d, s) \o StrategyLoop(d, s + 1)

RECURSIVE DifficultyLoop(_)
DifficultyLoop(d) ==
    IF d > Len(difficulties) THEN <<>>
    ELSE StrategyLoop(d, 1) \o DifficultyLoop(d + 1)

generate_robot_combinations == DifficultyLoop(1)

\* Number of combinations of the embedded list the model lets a run test.
MaxCombos == 2
\* Cap on the length of this.results (it grows with every run).
MaxResults == 2
\* Cap on the console.error count for calls of startTest that return at once.
MaxErrors == 2

\* constructor(): this.sequences and this.robotCombinations.
harnessSequences == DocWellFormed
robotCombinations == SubSeq(generate_robot_combinations, 1, MaxCombos)

\* constructor(): this.testDelay, this.comboDelay; resetGame's setTimeout.
testDelay == 500
comboDelay == 2000
resetDelay == 1000

GameFunctions == {"setDifficulty", "setStrategy", "setPersonality",
                  "resetGame", "submitMove"}
SelectIds == {"difficulty", "strategy", "personality"}
Outcomes == {"human", "robot", "tie"}
Null == "null"

\* Arguments the game may pass to updateUI: data.result a string, an array
\* whose first element is the outcome, or no result at all.
UIData == [kind : {"string", "array"}, first : Outcomes]
            \cup {[kind |-> "none", first |-> Null]}

\* Game lengths a user may pass to startTest (30 has no sequence).
GameLengths == {25, 50, 30}

Ev(op, arg) == [op |-> op, arg |-> arg]
Tr(op, i) == [op |-> op, i |-> i]

ZeroWins == [human |-> 0, robot |-> 0, tie |-> 0]

\* The generator is not part of a harness run.
GeneratorIdle ==
    /\ runs = <<>>
    /\ entry = "none"
    /\ inputFile = [exists |-> FALSE, json |-> FALSE, doc |-> DocEmpty]
    /\ outFiles = [n \in OutputNames |-> NoFile]
    /\ writeLog = <<>>
    /\ pc = "idle"
    /\ exitCode = NoExit
    /\ sequences = DocEmpty
    /\ di = 0 /\ si = 0 /\ pi = 0
    /\ combinations = <<>>
    /\ robot_combinations = <<>>

\* The page after the script was pasted: window.optimalTester exists and
\* nothing has run.  At most one game function and at most one <select> is
\* missing from the page.
Init ==
    /\ GeneratorIdle
    /\ present \in {GameFunctions} \cup {GameFunctions \ {f} : f \in GameFunctions}
    /\ selects \in {SelectIds} \cup {SelectIds \ {e} : e \in SelectIds}
    /\ selectValue = [e \in SelectIds |-> ""]
    /\ updateUI = "original"
    /\ hpc = "idle"
    /\ gameLength = 0
    /\ optimalSequence = Rec25
    /\ ci = 0 /\ mi = 0
    /\ wins = ZeroWins
    /\ results = <<>>
    /\ events = <<>>
    /\ trace = <<>>
    /\ reports = <<>>
    /\ downloads = <<>>
    /\ errors = 0

\* One of the three blocks of setRobotConfiguration: if the <select> exists
\* its value is set and the game's setter is called; calling a setter that
\* does not exist throws ReferenceError, which ends the function.
ConfigStep(st, el, fn, val) ==
    IF st.threw \/ el \notin selects THEN st
    ELSE IF fn \in present
      THEN [values |-> [st.values EXCEPT ![el] = val],
            events |-> st.events \o <<Ev("select", el), Ev("call", fn)>>,
            threw |-> FALSE]
      ELSE [values |-> [st.values EXCEPT ![el] = val],
            events |-> Append(st.events, Ev("select", el)),
            threw |-> TRUE]

\* setRobotConfiguration with the strategy block before the difficulty block.
setRobotConfiguration_reordered(combo) ==
    LET s0 == [values |-> selectValue, events |-> <<>>, threw |-> FALSE]
        s1 == ConfigStep(s0, "strategy", "setStrategy", combo.strategy)
        s2 == ConfigStep(s1, "difficulty", "setDifficulty", combo.difficulty)
    IN  ConfigStep(s2, "personality", "setPersonality", combo.personality)

setRobotConfiguration(combo) ==
    LET s0 == [values |-> selectValue, events |-> <<>>, threw |-> FALSE]
        s1 == ConfigStep(s0, "difficulty", "setDifficulty", combo.difficulty)
        s2 == ConfigStep(s1, "strategy", "setStrategy", combo.strategy)
    IN  ConfigStep(s2, "personality", "setPersonality", combo.personality)

\* winRate = totalMoves > 0 ? (wins.human / totalMoves) * 100 : 0, kept as
\* the fraction num / den.
WinRate(w, totalMoves) ==
    IF totalMoves > 0 THEN [num |-> w.human * 100, den |-> totalMoves]
    ELSE [num |-> 0, den |-> 1]

\* The object testSequenceAgainstCombo returns.
ComboResult(w) ==
    LET totalMoves == w.human + w.robot + w.tie
    IN  [wins |-> w, winRate |-> WinRate(w, totalMoves),
         totalMoves |-> totalMoves]

\* r.result.winRate > 50
Beats(r) == r.result.winRate.num > 50 * r.result.winRate.den

\* results.reduce((sum, r) => sum + r.result.winRate, 0) / results.length
RECURSIVE SumRates(_, _)
SumRates(rs, k) ==
    IF k = 0 THEN [num |-> 0, den |-> 1]
    ELSE LET a == SumRates(rs, k - 1)
             b == rs[k].result.winRate
         IN  [num |-> a.num * b.den + b.num * a.den, den |-> a.den * b.den]

AvgWinRate(rs) ==
    LET a == SumRates(rs, Len(rs))
    IN  [num |-> a.num, den |-> a.den * Len(rs)]

\* [...results].sort((a, b) => b.result.winRate - a.result.winRate): stable,
\* descending by win rate.
RateLess(a, b) == a.num * b.den < b.num * a.den

RECURSIVE InsertSorted(_, _)
InsertSorted(sorted, r) ==
    IF sorted = <<>> THEN <<r>>
    ELSE IF RateLess(Head(sorted).result.winRate, r.result.winRate)
      THEN <<r>> \o sorted
      ELSE <<Head(sorted)>> \o InsertSorted(Tail(sorted), r)

RECURSIVE SortedResults(_, _)
SortedResults(rs, k) ==
    IF k = 0 THEN <<>> ELSE InsertSorted(SortedResults(rs, k - 1), rs[k])

Min(a, b) == IF a < b THEN a ELSE b

\* What displayFinalResults prints.
FinalReport(gl, rs) ==
    LET sorted == SortedResults(rs, Len(rs))
        n == Min(5, Len(sorted))
    IN  [gameLength |-> gl,
         totalTests |-> Len(rs),
         avgWinRate |-> AvgWinRate(rs),
         beatsCount |-> Cardinality({k \in 1..Len(rs) : Beats(rs[k])}),
         best |-> [k \in 1..n |-> sorted[k].combo.name],
         worst |-> [k \in 1..n |-> sorted[Len(sorted) + 1 - k].combo.name]]

\* resultsData of createDownloadableResults (timestamp left out).
ResultsData(gl, rs) ==
    [gameLength |-> gl,
     sequenceName |-> IF Len(rs) > 0 THEN rs[1].sequence_name
                     ELSE <<"unknown">>,
     summary |-> [totalTests |-> Len(rs),
                  avgWinRate |-> AvgWinRate(rs),
                  beatsCount |-> Cardinality({k \in 1..Len(rs) : Beats(rs[k])})],
     detailedResults |-> rs]

\* What the log keeps of the data handed on to the original updateUI: the
\* outcome in data.result, Null when there is none.
DataStr(data) == data.first

\* displayFinalResults(gameLength), which ends in createDownloadableResults;
\* startTest then returns.
displayFinalResults(gl, rs, tr, w, evs) ==
    /\ results' = rs
    /\ reports' = Append(reports, FinalReport(gl, rs))
    /\ downloads' = Append(downloads, ResultsData(gl, rs))
    /\ trace' = tr \o <<Tr("report", Len(rs)), Tr("download", Len(rs))>>
    /\ hpc' = "idle"
    /\ events' = evs
    /\ wins' = w
    /\ UNCHANGED <<updateUI, errors, selectValue, ci, mi>>

\* resetGame() with a fallback that only resolves after the same delay.
ResetStep_noop(evs) ==
    IF "resetGame" \in present
      THEN [events |-> evs \o <<Ev("call", "resetGame"),
                               Ev("setTimeout", ToString(resetDelay))>>,
            hpc |-> "reset_wait"]
      ELSE [events |-> Append(evs, Ev("setTimeout", ToString(resetDelay))),
            hpc |-> "reset_wait"]

\* resetGame() without the setTimeout(resolve, 1000).
ResetStep_noTimer(evs) ==
    IF "resetGame" \in present
      THEN [events |-> Append(evs, Ev("call", "resetGame")),
            hpc |-> "reset_pending"]
      ELSE [events |-> Append(evs, Ev("call", "location.reload")),
            hpc |-> "reloaded"]

\* resetGame() of the harness: the game's resetGame and a timer, or, when the
\* page has no resetGame, location.reload() and a promise never resolved.
ResetStep(evs) ==
    IF "resetGame" \in present
      THEN [events |-> evs \o <<Ev("call", "resetGame"),
                               Ev("setTimeout", ToString(resetDelay))>>,
            hpc |-> "reset_wait"]
      ELSE [events |-> Append(evs, Ev("call", "location.reload")),
            hpc |-> "reloaded"]

\* Start of the loop body of startTest for combination i, up to the first
\* suspension of testSequenceAgainstCombo: setRobotConfiguration(combo), then
\* resetGame().  An exception of setRobotConfiguration rejects the promise of
\* testSequenceAgainstCombo and with it that of startTest.
BeginCombo(i, rs, tr) ==
    LET cfg == setRobotConfiguration(robotCombinations[i])
        rst == ResetStep(cfg.events)
    IN  /\ ci' = i
        /\ mi' = 0
        /\ wins' = ZeroWins
        /\ results' = rs
        /\ selectValue' = cfg.values
        /\ trace' = Append(tr, Tr("begin", i))
        /\ IF cfg.threw
             THEN events' = cfg.events /\ hpc' = "aborted"
             ELSE events' = rst.events /\ hpc' = rst.hpc
        /\ UNCHANGED <<updateUI, reports, downloads, errors>>

\* The loop test with "length - 1" as its bound.
LoopContinues_short(j) == j < Len(robotCombinations)

\* for (let i = 0; i < this.robotCombinations.length; i++), j being i + 1.
LoopContinues(j) == j <= Len(robotCombinations)

\* The loop test of startTest, then its body or what follows the loop.
NextIteration(gl, j, rs, tr, w, evs) ==
    IF LoopContinues(j) THEN BeginCombo(j, rs, tr)
    ELSE displayFinalResults(gl, rs, tr, w, evs)

\* The delay condition without the "- 1".
DelayAfter_every(i) == i <= Len(robotCombinations)

\* if (i < this.robotCombinations.length - 1), i being the 1-based index.
DelayAfter(i) == i < Len(robotCombinations)

\* End of testSequenceAgainstCombo and the rest of the loop body of
\* startTest: the record is pushed, then comboDelay is awaited unless this
\* was the last combination.
FinishCombo(w, evs) ==
    LET rec == [combo |-> robotCombinations[ci], result |-> ComboResult(w),
                sequence_name |-> optimalSequence.name]
        rs == Append(results, rec)
        tr == Append(trace, Tr("push", ci))
    IN  IF DelayAfter(ci)
          THEN /\ hpc' = "combo_delay"
               /\ results' = rs
               /\ trace' = Append(tr, Tr("setTimeout", ci))
               /\ events' = evs
               /\ wins' = w
               /\ UNCHANGED <<updateUI, errors, selectValue, ci, mi, reports,
                              downloads>>
          ELSE NextIteration(gameLength, ci + 1, rs, tr, w, evs)

\* The hook's last assignment left out.
RestoredUpdateUI_missing == "hook"

\* window.updateUI = originalUpdateUI, in the replacement function.
RestoredUpdateUI == "original"

\* playMove(move) for move k: with submitMove in the page the replacement of
\* window.updateUI is installed and the move submitted; without it an error
\* is logged, the promise resolves to null, nothing is counted and the
\* inter-move delay starts.
playMove(k, w, evs) ==
    /\ mi' = k
    /\ wins' = w
    /\ IF "submitMove" \in present
         THEN /\ updateUI' = "hook"
              /\ events' = evs \o <<Ev("install", "updateUI"),
                                   Ev("submitMove", optimalSequence.sequence[k])>>
              /\ hpc' = "awaiting_result"
              /\ UNCHANGED errors
         ELSE /\ errors' = errors + 1
              /\ events' = evs \o <<Ev("resolve", Null),
                                   Ev("setTimeout", ToString(testDelay))>>
              /\ hpc' = "move_delay"
              /\ UNCHANGED updateUI
    /\ UNCHANGED <<results, trace, reports, downloads, selectValue, ci>>

\* for (let i = 0; i < sequence.length; i++), k being i + 1: the next move,
\* or the end of the sequence.
MoveLoop(k, w, evs) ==
    IF k <= Len(optimalSequence.sequence) THEN playMove(k, w, evs)
    ELSE FinishCombo(w, evs)

\* if (data && data.result) moveResult = Array.isArray(...) ? [0] : result
MoveResult(data) == IF data.kind = "none" THEN Null ELSE data.first

\* if (result) wins[result]++ counting every resolved move as a tie.
Count_all(w, result) ==
    IF result # Null THEN [w EXCEPT ![result] = @ + 1]
    ELSE [w EXCEPT !.tie = @ + 1]

\* if (result) { wins[result]++; }
Count(w, result) ==
    IF result # Null THEN [w EXCEPT ![result] = @ + 1] ELSE w

\* The missing-sequence branch going on to the final report in place of
\* returning.
NoSequenceFound_report(gl) ==
    /\ errors' = errors + 1
    /\ reports' = Append(reports, FinalReport(gl, results))
    /\ downloads' = Append(downloads, ResultsData(gl, results))
    /\ UNCHANGED <<selectValue, updateUI, hpc, gameLength, optimalSequence,
                   ci, mi, wins, results, events, trace>>

\* if (!optimalSequence) { console.error(...); return; }
NoSequenceFound(gl) ==
    /\ errors' = errors + 1
    /\ UNCHANGED <<selectValue, updateUI, hpc, gameLength, optimalSequence,
                   ci, mi, wins, results, events, trace, reports, downloads>>

\* startTest(gameLength) up to its first suspension.
startTest(gl) ==
    /\ hpc \in {"idle", "aborted"}
    /\ LET sequenceKey == ToString(gl) \o "_moves"
       IN  IF sequenceKey \notin DOMAIN harnessSequences
             THEN NoSequenceFound(gl)
             ELSE /\ gameLength' = gl
                  /\ optimalSequence' = harnessSequences[sequenceKey]
                  /\ NextIteration(gl, 1, results, <<>>, wins, events)
    /\ UNCHANGED <<present, selects>>
    /\ UNCHANGED gvars

\* The timer of resetGame fires: testSequenceAgainstCombo creates wins and
\* enters the move loop.
ResetTimerFires ==
    /\ hpc = "reset_wait"
    /\ MoveLoop(1, ZeroWins,
                Append(events, Ev("timeout", ToString(resetDelay))))
    /\ UNCHANGED <<present, selects, gameLength, optimalSequence>>
    /\ UNCHANGED gvars

\* The game calls window.updateUI(data).  While the replacement is installed
\* it calls the original, captures the result, restores the original and
\* resolves; testSequenceAgainstCombo counts the result and starts the
\* inter-move delay.  Otherwise the call is the game's own business.
GameUpdateUI(data) ==
    /\ hpc \notin {"unloaded", "reloaded"}
    /\ IF updateUI = "hook"
         THEN /\ updateUI' = RestoredUpdateUI
              /\ wins' = Count(wins, MoveResult(data))
              /\ events' = events \o
                    <<Ev("originalUpdateUI", DataStr(data)),
                      Ev("resolve", MoveResult(data)),
                      Ev("setTimeout", ToString(testDelay))>>
              /\ hpc' = "move_delay"
              /\ UNCHANGED <<selectValue, gameLength, optimalSequence, ci, mi,
                             results, trace, reports, downloads, errors>>
         ELSE UNCHANGED <<selectValue, updateUI, hpc, gameLength,
                          optimalSequence, ci, mi, wins, results, events,
                          trace, reports, downloads, errors>>
    /\ UNCHANGED <<present, selects>>
    /\ UNCHANGED gvars

\* The inter-move timer fires: next pass of the move loop.
MoveTimerFires ==
    /\ hpc = "move_delay"
    /\ MoveLoop(mi + 1, wins,
                Append(events, Ev("timeout", ToString(testDelay))))
    /\ UNCHANGED <<present, selects, gameLength, optimalSequence>>
    /\ UNCHANGED gvars

\* The inter-combination timer fires: i++ and the loop test.
ComboTimerFires ==
    /\ hpc = "combo_delay"
    /\ NextIteration(gameLength, ci + 1, results,
                     Append(trace, Tr("timeout", ci)), wins, events)
    /\ UNCHANGED <<present, selects, gameLength, optimalSequence>>
    /\ UNCHANGED gvars

\* The user calls startTest while no run is in progress; the caps keep
\* this.results and the error count finite.
UserStartsTest ==
    \E gl \in GameLengths :
        /\ IF ToString(gl) \o "_moves" \in DOMAIN harnessSequences
             THEN Len(results) + Len(robotCombinations) <= MaxResults
             ELSE errors < MaxErrors
        /\ startTest(gl)

Next ==
    \/ UserStartsTest
    \/ ResetTimerFires
    \/ \E data \in UIData : GameUpdateUI(data)
    \/ MoveTimerFires
    \/ ComboTimerFires

Spec == Init /\ [][Next]_vars

\* The pages of Init that have all three <select> elements.
LiveInit == Init /\ selects = SelectIds

\* The page stays open and its timers fire.
LiveSpec ==
    /\ LiveInit
    /\ [][Next]_vars
    /\ WF_vars(ResetTimerFires)
    /\ WF_vars(MoveTimerFires)
    /\ WF_vars(ComboTimerFires)

-----------------------------------------------------------------------------
(* Properties of the generator (checked under GenSpec).                    *)

Returned == pc \in {"write_js", "write_html", "write_md"}

TripleAt(c, k) == <<c[k].difficulty, c[k].strategy, c[k].personality>>

\* C1: _generate_robot_combinations returns exactly 5 x 3 x 7 = 105 records,
\* every (difficulty, strategy, personality) triple of the option sets
\* appears exactly once, and the list is in nested order: difficulty
\* outermost, strategy in the middle, personality innermost.
C1_Enumeration ==
    Returned =>
        /\ Len(robot_combinations) = 105
        /\ \A d \in 1..Len(difficulties), s \in 1..Len(strategies),
              p \in 1..Len(personalities) :
              LET t == <<difficulties[d], strategies[s], personalities[p]>>
              IN  /\ Cardinality({k \in 1..Len(robot_combinations) :
                                    TripleAt(robot_combinations, k) = t}) = 1
                  /\ TripleAt(robot_combinations,
                        ((d - 1) * Len(strategies) + (s - 1))
                            * Len(personalities) + p) = t

C1_Witness ==
    /\ pc = "write_js"
    /\ Len(robot_combinations) = 105
    /\ TripleAt(robot_combinations, 105) = <<"lstm", "not_to_lose", "mirror">>

Untouched ==
    /\ writeLog = <<>>
    /\ \A n \in OutputNames : outFiles[n] \in {NoFile, OldFile}

\* C2: with best_sequences_quick_ref.json absent the process ends with a
\* non-zero exit status as its first step, and at no point of the run is any
\* of the three output files created or modified.
C2_AbsentInputFails ==
    ~inputFile.exists =>
        /\ Untouched
        /\ pc \in {"start", "exited"}
        /\ pc = "exited" => exitCode # 0 /\ exitCode # NoExit

C2_Witness ==
    /\ ~inputFile.exists
    /\ entry = "analyzer"
    /\ pc = "exited"
    /\ exitCode = 1
    /\ \E n \in OutputNames : outFiles[n] = OldFile

\* C3: with a well-formed input file present, a run through main writes the
\* three output files in the order JS, HTML, Markdown and exits with code 0.
C3_MainWritesAll ==
    (entry = "main" /\ WellFormed(inputFile) /\ pc = "exited") =>
        /\ writeLog = <<JsFile, HtmlFile, MdFile>>
        /\ exitCode = 0

\* Number of runs of startTest on one harness object.
MaxTests == 2

\* A page with every game function and every <select>.
RunsInit == Init /\ present = GameFunctions /\ selects = SelectIds

\* The user calls startTest with a length that has a sequence, again and
\* again on the same window.optimalTester, each time after the last run has
\* ended.
UserRepeatsTest ==
    \E gl \in {25, 50} :
        /\ Len(reports) < MaxTests
        /\ startTest(gl)

\* What the game hands to updateUI in these runs: a win, or no result.
RunsUIData == {[kind |-> "string", first |-> "human"],
               [kind |-> "none", first |-> Null]}

RunsNext ==
    \/ UserRepeatsTest
    \/ ResetTimerFires
    \/ \E data \in RunsUIData : GameUpdateUI(data)
    \/ MoveTimerFires
    \/ ComboTimerFires

\* Several runs, one after the other, on one harness object.
RunsSpec == RunsInit /\ [][RunsNext]_vars

-----------------------------------------------------------------------------
(* Reading the embedded data back, as a JavaScript engine does.            *)

Failed == [ok |-> FALSE, value |-> <<>>]

\* The characters between the quotes of a string literal: a backslash makes
\* the next character stand for itself, a bare double quote ends the literal
\* too early (SyntaxError).
RECURSIVE ScanString(_)
ScanString(s) ==
    IF s = <<>> THEN [ok |-> TRUE, value |-> <<>>]
    ELSE IF Head(s) = Quote THEN Failed
    ELSE IF Head(s) = Backslash
      THEN IF Len(s) = 1 THEN Failed
           ELSE LET rest == ScanString(SubSeq(s, 3, Len(s)))
                IN  [ok |-> rest.ok, value |-> <<s[2]>> \o rest.value]
      ELSE LET rest == ScanString(Tail(s))
           IN  [ok |-> rest.ok, value |-> <<Head(s)>> \o rest.value]

\* The value of a double-quoted string literal.
JsString(lit) ==
    IF Len(lit) < 2 \/ lit[1] # Quote \/ lit[Len(lit)] # Quote THEN Failed
    ELSE ScanString(SubSeq(lit, 2, Len(lit) - 1))

\* The value of a numeric literal, in hundredths.
JsNumber(lit) ==
    lit.int * 100
      + (IF Len(lit.frac) = 0 THEN 0
         ELSE IF Len(lit.frac) = 1 THEN lit.frac[1] * 10
         ELSE lit.frac[1] * 10 + lit.frac[2])

\* Names the generated page defines or inherits from the browser.
PageGlobals == {"document", "alert", "copyCode"}

\* The cooked value of a template literal's text: escapes are resolved as in
\* a string literal, ${name} evaluates name (ReferenceError if the page has
\* no such name), a bare back-tick ends the literal too early.
RECURSIVE CookTemplate(_)
CookTemplate(s) ==
    IF s = <<>> THEN [ok |-> TRUE, value |-> <<>>]
    ELSE IF Head(s) = Backtick THEN Failed
    ELSE IF Head(s) = Backslash
      THEN IF Len(s) = 1 THEN Failed
           ELSE LET rest == CookTemplate(SubSeq(s, 3, Len(s)))
                IN  [ok |-> rest.ok, value |-> <<s[2]>> \o rest.value]
    ELSE IF Head(s) = Dollar /\ Len(s) >= 2 /\ s[2] = LBrace
      THEN IF Len(s) < 4 \/ s[4] # RBrace \/ s[3] \notin PageGlobals
             THEN Failed
             ELSE LET rest == CookTemplate(SubSeq(s, 5, Len(s)))
                  IN  [ok |-> rest.ok, value |-> <<"[object]">> \o rest.value]
      ELSE LET rest == CookTemplate(Tail(s))
           IN  [ok |-> rest.ok, value |-> <<Head(s)>> \o rest.value]

\* The object a record's literal evaluates to.
EvalRecord(rec) ==
    LET strs == [f \in DOMAIN rec \cap {"name"} |-> JsString(rec[f])]
        moves == [f \in DOMAIN rec \cap {"sequence"} |->
                    [i \in DOMAIN rec[f] |-> JsString(rec[f][i])]]
    IN  [ok |-> /\ \A f \in DOMAIN strs : strs[f].ok
                /\ \A f \in DOMAIN moves :
                      \A i \in DOMAIN moves[f] :
                          moves[f][i].ok /\ Len(moves[f][i].value) = 1,
         value |-> [f \in DOMAIN rec |->
                      CASE f = "sequence" ->
                              [i \in DOMAIN rec[f] |->
                                  IF moves[f][i].value = <<>> THEN ""
                                  ELSE moves[f][i].value[1]]
                        [] f = "name" -> strs[f].value
                        [] f = "avg_win_rate" -> JsNumber(rec[f])
                        [] f = "beats_count" -> rec[f].int]]

\* this.sequences after the constructor ran on the given literal.
EvalSequences(lit) ==
    LET recs == [k \in DOMAIN lit |-> EvalRecord(lit[k])]
    IN  [ok |-> \A k \in DOMAIN lit : recs[k].ok,
         value |-> [k \in DOMAIN lit |-> recs[k].value]]

\* The harness text the page's <script> assigns to the textarea: the cooked
\* value of the whole template literal, if evaluating it does not throw.
CookRecord(rec) ==
    LET strs == [f \in DOMAIN rec \cap {"name"} |-> CookTemplate(rec[f])]
        moves == [f \in DOMAIN rec \cap {"sequence"} |->
                    [i \in DOMAIN rec[f] |-> CookTemplate(rec[f][i])]]
    IN  [ok |-> /\ \A f \in DOMAIN strs : strs[f].ok
                /\ \A f \in DOMAIN moves :
                      \A i \in DOMAIN moves[f] : moves[f][i].ok,
         value |-> [f \in DOMAIN rec |->
                      CASE f = "sequence" ->
                              [i \in DOMAIN rec[f] |-> moves[f][i].value]
                        [] f = "name" -> strs[f].value
                        [] OTHER -> rec[f]]]

TextareaValue(template) ==
    LET recs == [k \in DOMAIN template.sequences |->
                    CookRecord(template.sequences[k])]
        combos == [i \in DOMAIN template.robotCombinations |->
                    [f \in DOMAIN template.robotCombinations[i] |->
                        CookTemplate(template.robotCombinations[i][f])]]
        code == CookTemplate(template.code)
    IN  [ok |-> /\ \A k \in DOMAIN recs : recs[k].ok
                /\ \A i \in DOMAIN combos :
                      \A f \in DOMAIN combos[i] : combos[i][f].ok
                /\ code.ok,
         sequences |-> [k \in DOMAIN recs |-> recs[k].value]]

-----------------------------------------------------------------------------
(* Properties of the generated files (checked under GenSpec).              *)

Finished == pc = "exited" /\ exitCode = 0

Block(name) == outFiles[name].text[1]

\* this.sequences of the harness in optimal_sequence_test.js.
JsSequences == EvalSequences(Block(JsFile).script.sequences)

\* this.sequences of the harness the page puts into its textarea.
HtmlSequences ==
    LET area == TextareaValue(Block(HtmlFile).template)
    IN  IF area.ok THEN EvalSequences(area.sequences) ELSE Failed

\* C11: after a successful run the sequence data evaluated out of the JS file
\* and out of the template literal of the HTML page both equal the loaded
\* document: no field lost, no value changed.
C11_RoundTrip ==
    Finished =>
        /\ JsSequences.ok /\ JsSequences.value = sequences
        /\ HtmlSequences.ok /\ HtmlSequences.value = sequences

\* The JS file alone does round-trip.
C11_JsRoundTrip ==
    Finished => JsSequences.ok /\ JsSequences.value = sequences

\* C13: a second run on the unchanged input leaves every output file exactly
\* as the first run left it, and a file a run has written holds that run's
\* text alone, nothing of what was there before.
C13_Idempotent ==
    /\ (pc = "exited" /\ runs # <<>>) =>
            /\ outFiles = runs[Len(runs)].outFiles
            /\ exitCode = runs[Len(runs)].exitCode
    /\ \A k \in 1..Len(writeLog) :
            /\ Len(outFiles[writeLog[k]].text) = 1
            /\ Block(writeLog[k]).kind # "old"

C13_Witness ==
    /\ Finished
    /\ Len(runs) = 1
    /\ runs[1].exitCode = 0
    /\ runs[1].writeLog = <<JsFile, HtmlFile, MdFile>>
    /\ writeLog = <<JsFile, HtmlFile, MdFile>>

\* C14: for each record of the input, with sequence m1..mn and average win
\* rate r, the Markdown file has the line "Sequence: m1 -> ... -> mn" with
\* exactly these moves in this order and the line "**Expected Win Rate: r%**"
\* with r rounded to one digit after the point; paper, stone, scissor at
\* 42.5 gives "Sequence: paper -> stone -> scissor" and 42.5.
C14_MarkdownLines ==
    Finished =>
        /\ \A key \in {"25_moves", "50_moves"} :
              LET sec == Block(MdFile).sections[key]
                  rec == inputFile.doc[key]
                  n == Len(rec.sequence)
                  shown == sec.rate.value
              IN  /\ sec.sequence[1] = "Sequence: "
                  /\ Len(sec.sequence) = IF n = 0 THEN 1 ELSE 2 * n
                  /\ \A i \in 1..n : sec.sequence[2 * i] = rec.sequence[i]
                  /\ \A i \in 1..(n - 1) : sec.sequence[2 * i + 1] = Arrow
                  /\ sec.rate.label = "**Expected Win Rate: "
                  /\ sec.rate.end = "%**"
                  /\ Len(shown.frac) = 1
                  /\ shown.frac[1] \in 0..9
                  /\ LET tenths == shown.int * 10 + shown.frac[1]
                     IN  /\ tenths * 10 - rec.avg_win_rate \in (0 - 5)..5
        /\ inputFile.doc["25_moves"] = Rec25Quoted =>
              /\ Block(MdFile).sections["25_moves"].sequence
                    = <<"Sequence: ", "paper", Arrow, "stone", Arrow, "scissor">>
              /\ Block(MdFile).sections["25_moves"].rate.value
                    = [int |-> 42, frac |-> <<5>>]

C14_Witness ==
    /\ Finished
    /\ inputFile.doc = DocQuoted
    /\ MdFile \in {writeLog[k] : k \in 1..Len(writeLog)}
    /\ Block(MdFile).sections["25_moves"].sequence
            = <<"Sequence: ", "paper", Arrow, "stone", Arrow, "scissor">>
    /\ Block(MdFile).sections["50_moves"].rate.value
            = [int |-> 42, frac |-> <<2>>]

\* The list literal after "this.robotCombinations = " in the page's source,
\* read entry by entry.
EmbeddedCombinations ==
    LET lit == Block(HtmlFile).template.robotCombinations
    IN  [i \in DOMAIN lit |-> [f \in DOMAIN lit[i] |-> JsString(lit[i][f])]]

EmbeddedTriple(e) ==
    <<e.difficulty.value, e.strategy.value, e.personality.value>>

\* C12: the combination list embedded in the generated HTML has exactly 105
\* entries, no two with the same (difficulty, strategy, personality), and is
\* the enumerated list in the same order.
C12_HtmlEmbedsEnumeration ==
    Finished =>
        LET e == EmbeddedCombinations
            c == generate_robot_combinations
        IN  /\ Len(e) = 105
            /\ \A i \in DOMAIN e : \A f \in DOMAIN e[i] : e[i][f].ok
            /\ \A i, j \in DOMAIN e :
                  i # j => EmbeddedTriple(e[i]) # EmbeddedTriple(e[j])
            /\ \A i \in DOMAIN e :
                  /\ i <= Len(c)
                  /\ EmbeddedTriple(e[i])
                        = <<<<c[i].difficulty>>, <<c[i].strategy>>,
                            <<c[i].personality>>>>
                  /\ e[i].name.value = c[i].name

C12_Witness ==
    /\ Finished
    /\ writeLog = <<JsFile, HtmlFile, MdFile>>
    /\ Len(EmbeddedCombinations) = 105
    /\ EmbeddedTriple(EmbeddedCombinations[105])
            = <<<<"lstm">>, <<"not_to_lose">>, <<"mirror">>>>

Written == {writeLog[k] : k \in 1..Len(writeLog)}

\* C16: whatever the input file is, when the process has ended the run has
\* written either all three output files or none of them.
C16_AllOrNothing ==
    pc = "exited" => Written = {} \/ Written = OutputNames

-----------------------------------------------------------------------------
(* Properties of the harness (checked under Spec and LiveSpec).            *)

At(op) == {k \in 1..Len(events) : events[k].op = op}
Calls(fn) == {k \in 1..Len(events) : events[k] = Ev("call", fn)}
Timeouts(ms) == {k \in 1..Len(events) : events[k] = Ev("timeout", ToString(ms))}
IsSubmit(e) == e.op = "submitMove"
Before(A, B) == \A a \in A, b \in B : a < b

Setter(id) ==
    CASE id = "difficulty" -> "setDifficulty"
      [] id = "strategy" -> "setStrategy"
      [] id = "personality" -> "setPersonality"

\* C4: within one combination the configuration is set first (difficulty,
\* then strategy, then personality), then the game is reset, then the reset
\* delay elapses, and only then are moves submitted; moves are submitted in
\* sequence order, each once, and the next move is not submitted before the
\* previous one's outcome was captured and the inter-move delay elapsed, so
\* at most one move is outstanding.
C4_StepOrder ==
    LET submits == SelectSeq(events, IsSubmit)
        seq == optimalSequence.sequence
    IN  /\ \A fn \in {"setDifficulty", "setStrategy", "setPersonality",
                      "resetGame"} : Cardinality(Calls(fn)) <= 1
        /\ Before(Calls("setDifficulty"), Calls("setStrategy"))
        /\ Before(Calls("setStrategy"), Calls("setPersonality"))
        /\ Before(Calls("setDifficulty"), Calls("setPersonality"))
        /\ Calls("resetGame") # {} =>
              \A el \in selects :
                  /\ Calls(Setter(el)) # {}
                  /\ Before(Calls(Setter(el)), Calls("resetGame"))
                  /\ selectValue[el] = robotCombinations[ci][el]
        /\ Cardinality(Timeouts(resetDelay)) <= 1
        /\ Timeouts(resetDelay) # {} => Calls("resetGame") # {}
        /\ Before(Calls("resetGame"), Timeouts(resetDelay))
        /\ At("submitMove") # {} => Timeouts(resetDelay) # {}
        /\ Before(Timeouts(resetDelay), At("submitMove"))
        /\ Len(submits) <= Len(seq)
        /\ \A j \in 1..Len(submits) : submits[j].arg = seq[j]
        /\ \A a \in At("submitMove"), b \in At("submitMove") :
              a < b => \E r \in At("originalUpdateUI"), t \in Timeouts(testDelay) :
                          a < r /\ r < t /\ t < b
        /\ Cardinality(At("submitMove")) - Cardinality(At("originalUpdateUI"))
              = (IF hpc = "awaiting_result" THEN 1 ELSE 0)

C4_Witness ==
    /\ hpc = "combo_delay"
    /\ selects = SelectIds
    /\ Len(SelectSeq(events, IsSubmit)) = 2
    /\ Calls("setPersonality") # {}
    /\ Cardinality(Timeouts(testDelay)) = 2

\* C5: the interception of updateUI is temporary.  Whenever the harness is
\* not waiting for a move's result window.updateUI is the game's original
\* function; every call the replacement receives is forwarded to the
\* original, yields exactly one resolved result (the one in the data), and
\* the original is back in place before the harness continues.
C5_TemporaryInterception ==
    /\ hpc # "awaiting_result" => updateUI = "original"
    /\ \A k \in At("originalUpdateUI") :
          /\ k > 1 /\ events[k - 1].op = "submitMove"
          /\ k < Len(events) /\ events[k + 1].op = "resolve"
          /\ \E data \in UIData :
                /\ events[k].arg = DataStr(data)
                /\ events[k + 1].arg = MoveResult(data)
    /\ \A k \in At("submitMove") :
          k = Len(events) \/ events[k + 1].op = "originalUpdateUI"

C5_Witness ==
    /\ hpc = "move_delay"
    /\ updateUI = "original"
    /\ Cardinality(At("originalUpdateUI")) = 2
    /\ events[Len(events) - 1] = Ev("resolve", "robot")

\* C6 as claimed: whichever game function is absent, the run is neither
\* aborted nor stalled.
C6_AnyAbsentFunctionTolerated ==
    present # GameFunctions => hpc \notin {"aborted", "reloaded"}

\* C6, amended: only an absent submitMove is tolerated: every move logs an
\* error and resolves with no result, nothing is counted, updateUI is never
\* replaced and the run goes on by timers alone.  With resetGame absent the
\* harness calls location.reload() and no record is ever appended.  With a
\* setter absent whose <select> exists, setRobotConfiguration throws and the
\* run is aborted in its first combination before any reset or move.
C6_AbsentFunctions ==
    /\ present = GameFunctions \ {"submitMove"} =>
          /\ hpc \in {"idle", "reset_wait", "move_delay", "combo_delay"}
          /\ updateUI = "original"
          /\ At("submitMove") = {}
          /\ hpc = "move_delay" => errors >= mi
          /\ \A k \in 1..Len(results) : results[k].result.totalMoves = 0
    /\ "resetGame" \notin present =>
          /\ hpc \in {"idle", "aborted", "reloaded"}
          /\ results = <<>> /\ reports = <<>>
          /\ At("submitMove") = {}
    /\ \A el \in selects : Setter(el) \notin present =>
          /\ hpc \in {"idle", "aborted"}
          /\ results = <<>> /\ reports = <<>>
          /\ Calls("resetGame") = {} /\ At("submitMove") = {}
          /\ ci <= 1

C6_Witness ==
    /\ "submitMove" \notin present
    /\ Len(reports) = 1
    /\ Len(results) = Len(robotCombinations)
    /\ errors >= Len(robotCombinations)

Runnable ==
    /\ "resetGame" \in present
    /\ \A el \in selects : Setter(el) \in present

RunStarted == trace # <<>>
RunCompleted ==
    /\ Len(reports) > 0
    /\ Len(results) >= Len(robotCombinations)
    /\ hpc = "idle"

TraceAt(op) == {k \in 1..Len(trace) : trace[k].op = op}

\* C8: combinations are tested one after another in enumeration order: the
\* run begins with combination 1, combination i + 1 begins only after record
\* i was appended and the inter-combination delay has then been set and has
\* elapsed, the delay is set once after every record but the last, and the
\* k-th record of a run belongs to combination k.
C8_SequentialCombos ==
    LET n == Len(robotCombinations)
    IN  /\ trace # <<>> => trace[1] = Tr("begin", 1)
        /\ \A k \in TraceAt("begin") :
              /\ trace[k].i \in 1..n
              /\ trace[k].i > 1 =>
                    /\ k > 3
                    /\ trace[k - 1] = Tr("timeout", trace[k].i - 1)
                    /\ trace[k - 2] = Tr("setTimeout", trace[k].i - 1)
                    /\ trace[k - 3] = Tr("push", trace[k].i - 1)
        /\ \A k \in TraceAt("push") :
              k > 1 /\ trace[k - 1] = Tr("begin", trace[k].i)
        /\ \A k \in TraceAt("setTimeout") :
              /\ trace[k].i < n
              /\ k > 1 /\ trace[k - 1] = Tr("push", trace[k].i)
        /\ \A k \in TraceAt("push") :
              (trace[k].i < n /\ k < Len(trace)) =>
                    trace[k + 1] = Tr("setTimeout", trace[k].i)
        /\ \A k \in TraceAt("timeout") :
              k > 1 /\ trace[k - 1] = Tr("setTimeout", trace[k].i)
        /\ \A j, k \in 1..Len(trace) : (j # k) => trace[j] # trace[k]
        /\ \A k \in 1..Len(results) :
              results[k].combo = robotCombinations[((k - 1) % n) + 1]
        /\ Cardinality(TraceAt("push")) <= Len(results)

C8_Witness ==
    /\ hpc = "idle"
    /\ Len(results) = Len(robotCombinations)
    /\ TraceAt("timeout") # {}
    /\ TraceAt("report") # {}
    /\ present = GameFunctions

\* C9: in a run the final report and the download are produced exactly
\* once, right after the record of the last combination was appended, and
\* never while a combination is still untested.
C9_ReportOnceAtEnd ==
    LET n == Len(robotCombinations)
    IN  /\ Cardinality(TraceAt("report")) <= 1
        /\ Cardinality(TraceAt("download")) <= 1
        /\ \A k \in TraceAt("report") :
              /\ k > 1 /\ trace[k - 1] = Tr("push", n)
              /\ k < Len(trace) /\ trace[k + 1].op = "download"
        /\ \A k \in TraceAt("download") :
              /\ k = Len(trace)
              /\ k > 1 /\ trace[k - 1].op = "report"
        /\ Tr("push", n) \in {trace[k] : k \in 1..Len(trace)} =>
              TraceAt("report") # {}
        /\ Len(reports) = Len(downloads)
        /\ Len(reports) = Cardinality(TraceAt("report"))
        /\ hpc \in {"reset_wait", "awaiting_result", "move_delay",
                    "combo_delay"} => reports = <<>>
        /\ reports # <<>> =>
              /\ Len(results) = n
              /\ reports[1].totalTests = n
              /\ downloads[1].detailedResults = results

C9_Witness ==
    /\ Len(reports) = 1
    /\ Len(downloads) = 1
    /\ Len(results) = Len(robotCombinations)
    /\ reports[1].beatsCount = 1

SequenceNamed(name) ==
    (CHOOSE k \in DOMAIN harnessSequences : harnessSequences[k].name = name)

MovesOf(rec) ==
    Len(harnessSequences[SequenceNamed(rec.sequence_name)].sequence)

\* C10 as claimed: in every record every replayed move is counted, so the
\* three counts add up to totalMoves, which is the length of the replayed
\* sequence, the win rate is human wins / moves x 100 and exceeds 50 exactly
\* when 2 x human wins > moves replayed.
C10_EveryMoveCounted ==
    \A k \in 1..Len(results) :
        LET res == results[k].result
            moves == MovesOf(results[k])
        IN  /\ res.wins.human + res.wins.robot + res.wins.tie = res.totalMoves
            /\ res.totalMoves = moves
            /\ res.winRate.num * moves = res.wins.human * 100 * res.winRate.den
            /\ Beats(results[k]) <=> 2 * res.wins.human > moves

Resolved(outcome) == {k \in At("resolve") : events[k].arg = outcome}

\* C10, amended: a move is counted only when a result was captured for it
\* (updateUI called with a result, submitMove present), and then as exactly
\* that outcome.  So the three counts add up to totalMoves, which is at most
\* the length of the sequence; the win rate is human wins / totalMoves x 100
\* when totalMoves > 0 and 0 otherwise, and exceeds 50 exactly when
\* 2 x human wins > totalMoves.
C10_CountedMoves ==
    /\ \A k \in 1..Len(results) :
          LET res == results[k].result
          IN  /\ res.wins.human + res.wins.robot + res.wins.tie = res.totalMoves
              /\ res.totalMoves <= MovesOf(results[k])
              /\ res.totalMoves > 0 =>
                    res.winRate.num * res.totalMoves
                        = res.wins.human * 100 * res.winRate.den
              /\ res.totalMoves = 0 => res.winRate.num = 0
              /\ Beats(results[k]) <=> 2 * res.wins.human > res.totalMoves
    /\ (hpc \in {"combo_delay", "idle"} /\ results # <<>>) =>
          LET res == results[Len(results)].result
          IN  /\ \A o \in Outcomes : res.wins[o] = Cardinality(Resolved(o))
              /\ Cardinality(At("resolve")) = MovesOf(results[Len(results)])

C10_Witness ==
    \E k \in 1..Len(results) :
        /\ results[k].result.totalMoves = 1
        /\ results[k].result.wins.human = 1
        /\ MovesOf(results[k]) = 2
        /\ Beats(results[k])

\* C15: a call of startTest with a game length that has no "<length>_moves"
\* entry logs one error and changes nothing else: no <select> value, no call
\* of the page (configuration, reset, move), window.updateUI, the results
\* list, the reports and the downloads are all as before.
C15_MissingSequenceNoEffect ==
    [][(hpc \in {"idle", "aborted"} /\ errors' = errors + 1) =>
          UNCHANGED <<selectValue, updateUI, hpc, gameLength, optimalSequence,
                      ci, mi, wins, results, events, trace, reports,
                      downloads, present, selects>>]_vars

C15_Witness ==
    /\ "submitMove" \in present
    /\ errors = 1
    /\ hpc = "idle"
    /\ Len(results) = Len(robotCombinations)
    /\ Len(reports) = 1
    /\ Len(downloads) = 1

\* C17: every report and every download covers exactly one record per
\* combination, all of them records of the run that produced it (made with
\* that run's sequence), however many runs came before.
C17_RunCoversOwnRecords ==
    \A k \in 1..Len(downloads) :
        LET d == downloads[k]
            key == ToString(d.gameLength) \o "_moves"
        IN  /\ reports[k].totalTests = Len(robotCombinations)
            /\ d.summary.totalTests = Len(robotCombinations)
            /\ Len(d.detailedResults) = Len(robotCombinations)
            /\ d.sequenceName = harnessSequences[key].name
            /\ \A j \in 1..Len(d.detailedResults) :
                  d.detailedResults[j].sequence_name
                      = harnessSequences[key].name

=============================================================================
